---- MODULE Spec2Model ----
(***************************************************************************)
(* Model of the parking-admin request handlers:                            *)
(*   - POST and DELETE /api/push-subscriptions, acting on the collection   *)
(*     ticket_subscriptions (src/src/app/api/push-subscriptions/route.ts); *)
(*   - GET /api/admin/pending-payments, reading the collection pagos       *)
(*     (src/src/app/api/admin/pending-payments/route.ts).                  *)
(* A handler is a process that is suspended at the awaited database calls  *)
(* that change the collection; the calls of concurrent requests interleave. *)
(* A call that only reads, and on whose result nothing is decided, is taken *)
(* with the step before it.  Every database call may reject, which takes    *)
(* the handler to its catch block.                                          *)
(***************************************************************************)
EXTENDS Integers, Sequences, FiniteSets, TLC

\* ------------------------------------------------------------------ bounds
\* Number of documents ever inserted into ticket_subscriptions (ObjectIds 1..MaxId).
MaxId == 3
\* The clock (new Date(), in milliseconds) runs over 0..MaxTime.
MaxTime == 1
\* Documents of pagos have ids 1..MaxPagos and fechaPago in 1..MaxFecha.
MaxPagos == 3
MaxFecha == 2

\* ------------------------------------------------------------------ values
\* Concurrent requests in flight.
Procs == {"p1", "p2"}
\* Push-service endpoints (strings) that a browser can send.
Endpoints == {"e1", "e2"}
\* A JSON value that is truthy and not a string (a number, say).
NonString == "#123"
\* An absent, null or empty (falsy) JSON value.
Missing == "missing"
UserTypes == {"user", "admin"}

VARIABLES
  subs,      \* the ticket_subscriptions collection: a set of documents
  nextId,    \* the next ObjectId the database hands out
  now,       \* the clock, as new Date() last read it (milliseconds)
  pc,        \* pc[p]: where request p is suspended
  req,       \* req[p]: the method and JSON body of request p
  stamp,     \* stamp[p]: the new Date() of request p's $set document
  resp,      \* resp[p]: the response of request p
  before,    \* before[p]: the collection when request p arrived
  alone,     \* alone[p]: no other request has run since request p arrived
  pagos,     \* the pagos collection: a set of documents
  gpc,       \* where the GET /api/admin/pending-payments request is
  gresp,     \* its response
  last,      \* the latest request served when requests come one at a time
  \* The CarRegistration component (src/unnamed/part_000):
  formData,            \* useState: the eight fields of the form
  capturedImages,      \* useState: the captured images, or NoImages (null)
  isMobile,            \* what useMobileDetection() returns
  isSubmitting,        \* useState
  showVehicleCapture,  \* useState
  selectedCarImages,   \* useState: the car whose images are viewed, or NoCar (null)
  isLoading,           \* useState
  cameraRetryCount,    \* useRef: cameraRetryCount.current
  message,             \* useState: the status message
  timers,              \* the pending setTimeout callbacks, in the order they expire
  cars,                \* useState: the fetchCars request whose response it holds
  availableTickets,    \* useState: the number of tickets it holds
  carFlights,          \* the fetchCars requests in flight
  nextFetch,           \* the number of the next fetchCars request
  ticketFlights,       \* the fetchAvailableTickets requests in flight that nothing awaits
  spc,                 \* where handleSubmit is suspended
  waits,               \* what the two Promise.all are waiting for
  submitted,           \* the body of the latest POST /api/admin/cars
  onUpdate,            \* props: whether an onUpdate callback was passed
  updates,             \* the calls of onUpdate the latest handleSubmit has made
  screen               \* what is on the screen: the view and its submit button

pushVars == <<subs, nextId, now, pc, req, stamp, resp, before, alone>>
pagosVars == <<pagos, gpc, gresp>>
seqVars == <<last>>
uiVars == <<formData, capturedImages, isMobile, isSubmitting, showVehicleCapture,
            selectedCarImages, isLoading, cameraRetryCount, message, timers, cars,
            availableTickets, carFlights, nextFetch, ticketFlights, spc, waits, submitted,
            onUpdate, updates, screen>>
vars == <<subs, nextId, now, pc, req, stamp, resp, before, alone, pagos, gpc, gresp, last,
          formData, capturedImages, isMobile, isSubmitting, showVehicleCapture,
          selectedCarImages, isLoading, cameraRetryCount, message, timers, cars,
          availableTickets, carFlights, nextFetch, ticketFlights, spc, waits, submitted,
          onUpdate, updates, screen>>

\* ------------------------------------------------------- request bodies
NoReq == [method |-> "none", sub |-> FALSE, endpoint |-> Missing, p256dh |-> FALSE,
          auth |-> FALSE, userType |-> Missing]

PostBody(e, k1, k2, u) ==
  [method |-> "POST", sub |-> TRUE, endpoint |-> e, p256dh |-> k1, auth |-> k2, userType |-> u]

\* The (endpoint, userType) pairs of the well-formed POST bodies: two user types
\* on one endpoint, and a second endpoint.
Pairs == {<<"e1", "user">>, <<"e1", "admin">>, <<"e2", "user">>}

\* The bodies POST is tried on: the well-formed ones, and bodies with one part
\* missing or of the wrong type.
PostBodies ==
  {PostBody(k[1], TRUE, TRUE, k[2]) : k \in Pairs}
    \cup {[NoReq EXCEPT !.method = "POST", !.userType = "user"],
          PostBody("e1", TRUE, TRUE, Missing),
          PostBody(Missing, TRUE, TRUE, "user"),
          PostBody("e1", FALSE, TRUE, "user"),
          PostBody("e1", TRUE, FALSE, "admin"),
          PostBody(NonString, TRUE, FALSE, "user"),
          PostBody(NonString, TRUE, TRUE, "user")}

DeleteBody(e) ==
  [method |-> "DELETE", sub |-> TRUE, endpoint |-> e, p256dh |-> FALSE, auth |-> FALSE,
   userType |-> Missing]

DeleteBodies ==
  {DeleteBody(e) : e \in Endpoints \cup {Missing, NonString}}
    \cup {[NoReq EXCEPT !.method = "DELETE"]}

\* ------------------------------------------------------------ responses
NoResp == [status |-> 0, message |-> "", error |-> "", id |-> 0, n |-> 0,
           endpoint |-> Missing, userType |-> Missing]

Resp400(m) == [NoResp EXCEPT !.status = 400, !.message = m]

\* The catch block: status 500 with error.message.
Resp500(err) ==
  [NoResp EXCEPT !.status = 500, !.message = "Error interno del servidor", !.error = err]

Resp404 == [NoResp EXCEPT !.status = 404, !.message = "Suscripcion no encontrada"]

Resp200(count) ==
  [NoResp EXCEPT !.status = 200, !.message = "Suscripcion desactivada exitosamente",
                 !.n = count]

Resp201(i, b) ==
  [NoResp EXCEPT !.status = 201, !.message = "Suscripcion guardada exitosamente",
                 !.id = i, !.endpoint = b.endpoint, !.userType = b.userType]

\* The response of GET /api/admin/pending-payments: none yet.
NoList == <<>>
GetIdle == [status |-> 0, body |-> NoList, message |-> ""]

\* No request has been served yet.
NoLast == [method |-> "none", endpoint |-> Missing, userType |-> Missing,
           ticketCode |-> Missing, status |-> 0, id |-> 0, replaced |-> {},
           again |-> FALSE]

\* ------------------------------------------------- the component's values
\* Strings are sequences of characters; " " stands for any white space.
Empty == <<>>
Blank == <<" ">>
Padded == <<" ", "x", " ">>
Typed == <<"x">>
Detected == <<"d">>

\* The keys of CarFormData (nombreDueno: nombreDueño).
Fields == {"placa", "marca", "modelo", "color", "nombreDueno", "telefono",
           "ticketAsociado", "nota"}

\* The fields handleVehicleDetected fills in.
VehicleFields == {"placa", "marca", "modelo", "color"}

\* useState's initial formData, and the one handleSubmit resets it to.
EmptyForm == [f \in Fields |-> Empty]

\* capturedImages: null.
NoImages == [placaUrl |-> "", vehiculoUrl |-> "", confianzaPlaca |-> -1,
             confianzaVehiculo |-> -1]

\* selectedCarImages: null.
NoCar == "null"

\* No POST /api/admin/cars has been sent.
NoSubmit == [sent |-> FALSE, formData |-> EmptyForm, imagenes |-> FALSE,
             images |-> NoImages, capturaMetodo |-> ""]

\* The state has changed and the component has not been rendered again.
NoScreen == [rendered |-> FALSE, view |-> "", button |-> FALSE, valid |-> FALSE,
             disabled |-> TRUE]

\* A Promise.all that waits for nothing.
Settled == [cars |-> 0, tickets |-> FALSE]

\* No component is mounted: its state is what useState and useRef start with.
Unmounted ==
  /\ formData = EmptyForm
  /\ capturedImages = NoImages
  /\ isMobile = FALSE
  /\ isSubmitting = FALSE
  /\ showVehicleCapture = FALSE
  /\ selectedCarImages = NoCar
  /\ isLoading = TRUE
  /\ cameraRetryCount = 0
  /\ message = ""
  /\ timers = <<>>
  /\ cars = 0
  /\ availableTickets = 0
  /\ carFlights = {}
  /\ nextFetch = 1
  /\ ticketFlights = 0
  /\ spc = "idle"
  /\ waits = [mount |-> Settled, submit |-> Settled]
  /\ submitted = NoSubmit
  /\ onUpdate = FALSE
  /\ updates = 0
  /\ screen = NoScreen

\* ------------------------------------------------------ handler helpers
\* console.log of subscription?.endpoint?.substring(0, 50): a TypeError when the
\* endpoint is there and has no substring method.
LogThrows(b) == b.sub /\ b.endpoint = NonString

\* POST: !subscription || !userType
PostIncomplete(b) == ~b.sub \/ b.userType = Missing

\* POST: !subscription.endpoint || !subscription.keys?.p256dh || !subscription.keys?.auth
PostInvalid(b) == b.endpoint = Missing \/ ~b.p256dh \/ ~b.auth

\* DELETE: !subscription?.endpoint
DeleteInvalid(b) == ~b.sub \/ b.endpoint = Missing

\* The body passes the handler's validation.
Valid(b) ==
  IF b.method = "POST" THEN ~PostIncomplete(b) /\ ~PostInvalid(b) ELSE ~DeleteInvalid(b)

\* MatchPair with isActive: true added to the filter: only live duplicates go.
MatchPairActiveOnly(e, u) == {r \in subs : r.endpoint = e /\ r.userType = u /\ r.isActive}

\* MatchPair with userType left out of the filter.
MatchPairAnyUserType(e, u) == {r \in subs : r.endpoint = e}

\* The filter { "subscription.endpoint": e, userType: u } of POST.
MatchPair(e, u) == {r \in subs : r.endpoint = e /\ r.userType = u}

\* The filter { "subscription.endpoint": e } of DELETE.
MatchEndpoint(e) == {r \in subs : r.endpoint = e}

\* subscriptionData, as insertOne stores it under a fresh id.
NewSubscription(i, b) ==
  [id |-> i, endpoint |-> b.endpoint, userType |-> b.userType, isActive |-> TRUE,
   stage |-> "active", unsubscribedAt |-> -1]

\* Unsubscribe with "lifecycle.stage" left out of the $set.
UnsubscribeFlagOnly(r, t) == [r EXCEPT !.isActive = FALSE, !.unsubscribedAt = t]

\* Unsubscribe flipping the status instead of setting it.
UnsubscribeToggle(r, t) ==
  [r EXCEPT !.isActive = ~r.isActive, !.unsubscribedAt = t,
            !.stage = IF r.isActive THEN "unsubscribed" ELSE "active"]

\* The $set of DELETE applied to one document.
Unsubscribe(r, t) ==
  [r EXCEPT !.isActive = FALSE, !.unsubscribedAt = t, !.stage = "unsubscribed"]

\* updateMany's modifiedCount: the matched documents the $set changed.
ModifiedCount(matched, t) == Cardinality({r \in matched : Unsubscribe(r, t) # r})

\* Another request is in flight, or is when request p arrives.
Others(p) == Procs \ {p}

\* No handler has returned without its response having left the server: the
\* response is written as the handler returns, before any other continuation runs.
Quiet == \A q \in Procs : pc[q] # "done"

\* alone, after a step of request p: every other request in flight has now run
\* beside p.
Disturb(p) == [q \in Procs |-> IF q = p THEN alone[q] ELSE FALSE]

\* before, after a step of request p: kept for the requests that still run alone.
Forget(p) == [q \in Procs |-> IF q = p THEN before[q] ELSE {}]

\* ------------------------------------------------------------ Init (push)
\* The server has started on an empty ticket_subscriptions collection.
InitPush ==
  /\ subs = {}
  /\ nextId = 1
  /\ now = 0
  /\ pc = [p \in Procs |-> "idle"]
  /\ req = [p \in Procs |-> NoReq]
  /\ stamp = [p \in Procs |-> 0]
  /\ resp = [p \in Procs |-> NoResp]
  /\ before = [p \in Procs |-> {}]
  /\ alone = [p \in Procs |-> FALSE]
  /\ pagos = {}
  /\ gpc = "idle"
  /\ gresp = GetIdle
  /\ last = NoLast
  /\ Unmounted

\* The request is answered: the handler returns.
Answer(p, r) ==
  /\ pc' = [pc EXCEPT ![p] = "done"]
  /\ resp' = [resp EXCEPT ![p] = r]

\* ------------------------------------------------------------------ POST
\* Lines 6-33: what the handler answers before its first database call (NoResp:
\* nothing, it goes on to find).  The client promise is awaited first, then the
\* body is read and logged, then validated.
PostCheck(b, connected) ==
  IF ~connected THEN Resp500("db")
  ELSE IF LogThrows(b) THEN Resp500("TypeError")
  ELSE IF PostIncomplete(b) THEN Resp400("Datos incompletos")
  ELSE IF PostInvalid(b) THEN Resp400("Suscripcion invalida")
  ELSE NoResp

\* Lines 4-52: the request arrives and is checked; find(...).toArray() is awaited
\* and its result logged (found: it did not reject).  find changes nothing and
\* nothing is decided on its result, so it is taken with the arrival.  A request
\* answered here has touched nothing that another request sees, so that all its
\* interleavings with the requests in flight are alike: it is taken when none is
\* in flight.
PostStart(p) ==
  /\ Quiet
  /\ pc[p] = "idle"
  /\ \E b \in PostBodies, connected \in BOOLEAN, found \in BOOLEAN :
       LET r == PostCheck(b, connected)
           answer == IF r = NoResp /\ ~found THEN Resp500("db") ELSE r
       IN /\ answer # NoResp => \A o \in Others(p) : pc[o] = "idle"
          /\ req' = [req EXCEPT ![p] = b]
          /\ alone' = [q \in Procs |-> q = p /\ \A o \in Others(p) : pc[o] = "idle"]
          /\ before' = [q \in Procs |-> IF alone'[q] THEN subs ELSE {}]
          /\ IF answer # NoResp THEN Answer(p, answer)
             ELSE pc' = [pc EXCEPT ![p] = "deleteMany"] /\ resp' = resp
  /\ UNCHANGED <<subs, nextId, now, stamp, pagosVars, seqVars, uiVars>>

\* Lines 55-58: deleteMany on (endpoint, userType).
PostDeleteMany(p) ==
  /\ Quiet
  /\ pc[p] = "deleteMany"
  /\ subs' = subs \ MatchPair(req[p].endpoint, req[p].userType)
  /\ pc' = [pc EXCEPT ![p] = "insertOne"]
  /\ alone' = Disturb(p)
  /\ before' = Forget(p)
  /\ UNCHANGED <<nextId, now, req, stamp, resp, pagosVars, seqVars, uiVars>>

\* Lines 62-125: insertOne(subscriptionData), then findOne({ _id: insertedId }),
\* whose result is logged (verified: it did not reject), and the 201 response
\* with subscriptionId = result.insertedId.  findOne changes nothing, so it is
\* taken with the insertion.
PostInsertOne(p) ==
  /\ Quiet
  /\ pc[p] = "insertOne"
  /\ nextId <= MaxId
  /\ subs' = subs \cup {NewSubscription(nextId, req[p])}
  /\ nextId' = nextId + 1
  /\ \E verified \in BOOLEAN :
       Answer(p, IF verified THEN Resp201(nextId, req[p]) ELSE Resp500("db"))
  /\ alone' = Disturb(p)
  /\ before' = Forget(p)
  /\ UNCHANGED <<now, req, stamp, pagosVars, seqVars, uiVars>>

\* ---------------------------------------------------------------- DELETE
\* Lines 135-148: what the handler answers before its first database call.
DeleteCheck(b, connected) ==
  IF ~connected THEN Resp500("db")
  ELSE IF LogThrows(b) THEN Resp500("TypeError")
  ELSE IF DeleteInvalid(b) THEN Resp400("Endpoint de suscripcion requerido")
  ELSE NoResp

\* Lines 133-177: the request arrives and is checked; find(...).toArray() is
\* awaited and logged (taken with the arrival, as in PostStart); then the $set
\* document is built: new Date() reads the clock, which has stood still or has
\* moved on since it was last read.
DeleteStart(p) ==
  /\ Quiet
  /\ pc[p] = "idle"
  /\ \E b \in DeleteBodies, connected \in BOOLEAN, found \in BOOLEAN, t \in now..MaxTime :
       LET r == DeleteCheck(b, connected)
           answer == IF r = NoResp /\ ~found THEN Resp500("db") ELSE r
       IN /\ answer # NoResp => \A o \in Others(p) : pc[o] = "idle"
          /\ req' = [req EXCEPT ![p] = b]
          /\ alone' = [q \in Procs |-> q = p /\ \A o \in Others(p) : pc[o] = "idle"]
          /\ before' = [q \in Procs |-> IF alone'[q] THEN subs ELSE {}]
          /\ IF answer # NoResp
             THEN Answer(p, answer) /\ UNCHANGED <<now, stamp>> /\ t = now
             ELSE /\ pc' = [pc EXCEPT ![p] = "updateMany"]
                  /\ resp' = resp
                  /\ now' = t
                  /\ stamp' = [stamp EXCEPT ![p] = t]
  /\ UNCHANGED <<subs, nextId, pagosVars, seqVars, uiVars>>

\* Lines 168-192: updateMany and the response computed from modifiedCount.
DeleteUpdateMany(p) ==
  /\ Quiet
  /\ pc[p] = "updateMany"
  /\ LET matched == MatchEndpoint(req[p].endpoint)
         count == ModifiedCount(matched, stamp[p])
     IN /\ subs' = (subs \ matched) \cup {Unsubscribe(r, stamp[p]) : r \in matched}
        /\ Answer(p, IF count = 0 THEN Resp404 ELSE Resp200(count))
  /\ alone' = Disturb(p)
  /\ before' = Forget(p)
  /\ UNCHANGED <<nextId, now, req, stamp, pagosVars, seqVars, uiVars>>

\* ------------------------------------------------------- both handlers
\* The awaited deleteMany, insertOne or updateMany rejects: the catch block
\* answers 500 (lines 126-130 and 193-197).  The call has changed nothing.
DbCallFails(p) ==
  /\ Quiet
  /\ pc[p] \in {"deleteMany", "insertOne", "updateMany"}
  /\ Answer(p, Resp500("db"))
  /\ alone' = Disturb(p)
  /\ before' = Forget(p)
  /\ UNCHANGED <<subs, nextId, now, req, stamp, pagosVars, seqVars, uiVars>>

\* The response has left the server; the handler's locals are gone.
Finish(p) ==
  /\ pc[p] = "done"
  /\ pc' = [pc EXCEPT ![p] = "idle"]
  /\ req' = [req EXCEPT ![p] = NoReq]
  /\ stamp' = [stamp EXCEPT ![p] = 0]
  /\ resp' = [resp EXCEPT ![p] = NoResp]
  /\ before' = [before EXCEPT ![p] = {}]
  /\ alone' = [alone EXCEPT ![p] = FALSE]
  /\ UNCHANGED <<subs, nextId, now, pagosVars, seqVars, uiVars>>

\* ------------------------------------------------- pending payments
\* Values of the fields estado and estadoValidacion: the one the query asks for,
\* and another one.
Estados == {"pendiente_validacion", "validado"}
Validaciones == {"pendiente", "validado"}

\* The documents that can be stored under id i.
PagoDocs(i) ==
  [id : {i}, estado : Estados, estadoValidacion : Validaciones, fechaPago : 1..MaxFecha]

\* The collections of k documents, with ids 1..k.
PagosOfSize(k) ==
  {{f[i] : i \in 1..k} : f \in {g \in [1..k -> UNION {PagoDocs(i) : i \in 1..k}] :
                                  \A i \in 1..k : g[i].id = i}}

\* PendingFilter with the second condition of the query forgotten.
PendingFilterEstadoOnly(d) == d.estado = "pendiente_validacion"

\* Lines 17-20: find({ estado: "pendiente_validacion", estadoValidacion: "pendiente" }).
PendingFilter(d) == d.estado = "pendiente_validacion" /\ d.estadoValidacion = "pendiente"

\* Lines 22-46: project(...): of the fields modelled, all are kept.
Project(d) ==
  [id |-> d.id, estado |-> d.estado, estadoValidacion |-> d.estadoValidacion,
   fechaPago |-> d.fechaPago]

\* FirstByFecha for sort({ fechaPago: 1 }): the order reversed.
FirstByFechaAscending(S) == {d \in S : \A e \in S : d.fechaPago <= e.fechaPago}

\* The documents of S that sort({ fechaPago: -1 }) may put first.
FirstByFecha(S) == {d \in S : \A e \in S : e.fechaPago <= d.fechaPago}

\* Line 21: sort({ fechaPago: -1 }).toArray(): the orders the database may return
\* the documents of S in (documents of equal fechaPago come in any order).
RECURSIVE SortByFecha(_)
SortByFecha(S) ==
  IF S = {} THEN {<<>>}
  ELSE UNION {{<<d>> \o rest : rest \in SortByFecha(S \ {d})} : d \in FirstByFecha(S)}

\* Lines 15-47: the query's results.
PendingPayments == SortByFecha({Project(d) : d \in {x \in pagos : PendingFilter(x)}})

\* Lines 66-72: the response of a query that succeeded.
GetOk(list) == [status |-> 200, body |-> list, message |-> ""]

\* Lines 73-76: the response of the catch block.
GetError == [status |-> 500, body |-> NoList, message |-> "Error al obtener pagos pendientes"]

\* The server has started on some pagos collection; no push request is made.
InitPagos ==
  /\ pagos \in UNION {PagosOfSize(k) : k \in 0..MaxPagos}
  /\ gpc = "idle"
  /\ gresp = GetIdle
  /\ subs = {}
  /\ nextId = 1
  /\ now = 0
  /\ pc = [p \in Procs |-> "idle"]
  /\ req = [p \in Procs |-> NoReq]
  /\ stamp = [p \in Procs |-> 0]
  /\ resp = [p \in Procs |-> NoResp]
  /\ before = [p \in Procs |-> {}]
  /\ alone = [p \in Procs |-> FALSE]
  /\ last = NoLast
  /\ Unmounted

\* Lines 8-11: the request arrives and the client promise is awaited; when it
\* rejects the catch block answers.
GetStart ==
  /\ gpc = "idle"
  /\ \E connected \in BOOLEAN :
       IF connected THEN gpc' = "find" /\ gresp' = gresp
       ELSE gpc' = "caught" /\ gresp' = GetError
  /\ UNCHANGED <<pagos, pushVars, seqVars, uiVars>>

\* Lines 15-72: the query is awaited and its result returned.
GetFind ==
  /\ gpc = "find"
  /\ \E list \in PendingPayments :
       gresp' = GetOk(list)
  /\ gpc' = "returned"
  /\ UNCHANGED <<pagos, pushVars, seqVars, uiVars>>

\* Lines 73-76: the query rejects.
GetFindFails ==
  /\ gpc = "find"
  /\ gresp' = GetError
  /\ gpc' = "caught"
  /\ UNCHANGED <<pagos, pushVars, seqVars, uiVars>>

\* The response has left the server.
GetFinish ==
  /\ gpc \in {"returned", "caught"}
  /\ gpc' = "idle"
  /\ gresp' = GetIdle
  /\ UNCHANGED <<pagos, pushVars, seqVars, uiVars>>

NextPagos == GetStart \/ GetFind \/ GetFindFails \/ GetFinish

SpecPagos == InitPagos /\ [][NextPagos]_vars

NextPush ==
  \/ \E p \in Procs :
       \/ PostStart(p)
       \/ PostDeleteMany(p)
       \/ PostInsertOne(p)
       \/ DeleteStart(p)
       \/ DeleteUpdateMany(p)
       \/ DbCallFails(p)
       \/ Finish(p)

SpecPush == InitPush /\ [][NextPush]_vars

\* ------------------------------------------ requests served one at a time
\* The ticket codes a browser sends with its subscription; Missing: none sent.
TicketCodes == {"T1", "T2"}
Codes == TicketCodes \cup {Missing}

\* SubscriptionData with the ticket codes of a replaced document appended.
SubscriptionDataKeepingCodes(i, b, code) ==
  LET matched == MatchPair(b.endpoint, b.userType)
      kept == IF matched = {} THEN <<>> ELSE (CHOOSE r \in matched : TRUE).ticketCodes
  IN [ticketCodes |-> (IF code # Missing THEN <<code>> ELSE <<>>) \o kept]
       @@ NewSubscription(i, b)

\* Lines 63-89: subscriptionData with its ticketCodes array,
\* ticketCode ? [ticketCode] : [].
SubscriptionData(i, b, code) ==
  [ticketCodes |-> IF code # Missing THEN <<code>> ELSE <<>>] @@ NewSubscription(i, b)

\* The bodies POST is tried on when requests come one at a time: both user types
\* on one endpoint, and the malformed bodies.  The other endpoint is one that
\* DELETE is asked to unsubscribe and that has no document.
SeqPostBodies == {b \in PostBodies : b.endpoint # "e2"}

\* What is kept of a request and its response.
Served(m, b, code, answer, gone, twice) ==
  [method |-> m, endpoint |-> b.endpoint, userType |-> b.userType, ticketCode |-> code,
   status |-> answer.status, id |-> answer.id, replaced |-> gone, again |-> twice]

\* The server has started on an empty collection and serves one request after
\* the other.
InitSeq ==
  /\ subs = {}
  /\ nextId = 1
  /\ now = 0
  /\ last = NoLast
  /\ Unmounted
  /\ pc = [p \in Procs |-> "idle"]
  /\ req = [p \in Procs |-> NoReq]
  /\ stamp = [p \in Procs |-> 0]
  /\ resp = [p \in Procs |-> NoResp]
  /\ before = [p \in Procs |-> {}]
  /\ alone = [p \in Procs |-> FALSE]
  /\ pagos = {}
  /\ gpc = "idle"
  /\ gresp = GetIdle

\* Lines 4-131: one POST from arrival to response.  failsAt names the awaited
\* database call that rejects, if one does: the calls before it have taken
\* effect, and the catch block answers 500.
SeqPost ==
  /\ \E b \in SeqPostBodies, code \in Codes, connected \in BOOLEAN :
       LET r == PostCheck(b, connected)
           matched == MatchPair(b.endpoint, b.userType)
       IN IF r # NoResp
          THEN /\ last' = Served("POST", b, code, r, {}, FALSE)
               /\ UNCHANGED <<subs, nextId>>
          ELSE \E failsAt \in {"none", "find", "deleteMany", "insertOne", "findOne"} :
                 LET deleted == failsAt \in {"none", "insertOne", "findOne"}
                     inserted == failsAt \in {"none", "findOne"}
                     answer == IF failsAt = "none" THEN Resp201(nextId, b)
                               ELSE Resp500("db")
                 IN /\ inserted => nextId <= MaxId
                    /\ subs' = (IF deleted THEN subs \ matched ELSE subs)
                                 \cup (IF inserted THEN {SubscriptionData(nextId, b, code)}
                                       ELSE {})
                    /\ nextId' = IF inserted THEN nextId + 1 ELSE nextId
                    /\ last' = Served("POST", b, code, answer,
                                      IF deleted THEN {x.ticketCodes : x \in matched}
                                      ELSE {}, FALSE)
  /\ UNCHANGED <<now, pc, req, stamp, resp, before, alone, pagosVars, uiVars>>

\* Lines 133-198: one DELETE from arrival to response.  new Date() is read when
\* the $set document is built, after find.
SeqDelete ==
  /\ \E b \in DeleteBodies, connected \in BOOLEAN :
       LET r == DeleteCheck(b, connected)
           matched == MatchEndpoint(b.endpoint)
       IN IF r # NoResp
          THEN /\ last' = Served("DELETE", b, Missing, r, {}, FALSE)
               /\ UNCHANGED <<subs, now>>
          ELSE \E failsAt \in {"none", "find", "updateMany"}, t \in now..MaxTime :
                 LET ran == failsAt = "none"
                     count == ModifiedCount(matched, t)
                     answer == IF ~ran THEN Resp500("db")
                               ELSE IF count = 0 THEN Resp404
                               ELSE Resp200(count)
                 IN /\ failsAt = "find" => t = now
                    /\ now' = t
                    /\ subs' = IF ran
                               THEN (subs \ matched) \cup {Unsubscribe(x, t) : x \in matched}
                               ELSE subs
                    /\ last' = Served("DELETE", b, Missing, answer, {},
                                      /\ ran
                                      /\ last.method = "DELETE"
                                      /\ last.endpoint = b.endpoint
                                      /\ last.status \in {200, 404})
  /\ UNCHANGED <<nextId, pc, req, stamp, resp, before, alone, pagosVars, uiVars>>

NextSeq == SeqPost \/ SeqDelete

SpecSeq == InitSeq /\ [][NextSeq]_vars

\* ============================================ the CarRegistration component
serverVars == <<pushVars, pagosVars, seqVars>>

\* The server is not part of what is looked at: no request, empty collections.
NoServer ==
  /\ subs = {}
  /\ nextId = 1
  /\ now = 0
  /\ pc = [p \in Procs |-> "idle"]
  /\ req = [p \in Procs |-> NoReq]
  /\ stamp = [p \in Procs |-> 0]
  /\ resp = [p \in Procs |-> NoResp]
  /\ before = [p \in Procs |-> {}]
  /\ alone = [p \in Procs |-> FALSE]
  /\ pagos = {}
  /\ gpc = "idle"
  /\ gresp = GetIdle
  /\ last = NoLast

\* String.prototype.trim: the white space at both ends is removed.
RECURSIVE TrimStart(_)
TrimStart(s) == IF s # Empty /\ Head(s) = " " THEN TrimStart(Tail(s)) ELSE s

RECURSIVE TrimEnd(_)
TrimEnd(s) ==
  IF s # Empty /\ s[Len(s)] = " " THEN TrimEnd(SubSeq(s, 1, Len(s) - 1)) ELSE s

Trim(s) == TrimEnd(TrimStart(s))

\* isFormValid comparing the values themselves with "".
IsFormValidUntrimmed ==
  IF isMobile THEN formData["placa"] # Empty /\ formData["ticketAsociado"] # Empty
  ELSE \A f \in Fields : formData[f] # Empty

\* Lines 290-295: isFormValid().
IsFormValid ==
  IF isMobile
  THEN Trim(formData["placa"]) # Empty /\ Trim(formData["ticketAsociado"]) # Empty
  ELSE \A f \in Fields : Trim(formData[f]) # Empty

\* Lines 454 and 603: disabled={!isFormValid() || isSubmitting}.
SubmitDisabled == ~IsFormValid \/ isSubmitting

\* ------------------------------------------------- the mounted component
\* Pending setTimeout callbacks at any one time.
MaxTimers == 2
\* fetchCars requests issued while the component is mounted.
MaxFetch == 3
\* Times the camera is opened where the retry limit is not what is looked at.
MaxOpenings == 1

\* Line 84: maxRetries.
MaxRetries == 10
\* Lines 225, 279, 282, 306: the delay of the timeout that clears a message (s).
MessageDelay == 5
\* Line 315: the delay after "Informacion del vehiculo actualizada" (s).
UpdateDelay == 3

\* The status messages (without their emoji).
MsgCaptured == "Vehiculo capturado"
MsgOk == "ok: data.message"
MsgRejected == "error: data.message"
MsgFailed == "Error al registrar el carro"
MsgMaxRetries == "Maximo de intentos de camara alcanzado"
MsgUpdated == "Informacion del vehiculo actualizada correctamente"

\* What VehicleCapture hands to onVehicleDetected: every field read, or the
\* plate not read.
VehicleDatas ==
  {[placa |-> p, marca |-> Detected, modelo |-> Detected, color |-> Detected,
    plateImageUrl |-> "plate.jpg", vehicleImageUrl |-> "vehicle.jpg",
    plateConfidence |-> 90, vehicleConfidence |-> 80] : p \in {Detected, Empty}}

\* View without the branch for selectedCarImages.
ViewWithoutViewer ==
  IF isLoading THEN "spinner"
  ELSE IF showVehicleCapture THEN "capture"
  ELSE IF isMobile THEN "mobile"
  ELSE "desktop"

\* Lines 327-357: the view the component renders.
View ==
  IF isLoading THEN "spinner"
  ELSE IF showVehicleCapture THEN "capture"
  ELSE IF selectedCarImages # NoCar THEN "viewer"
  ELSE IF isMobile THEN "mobile"
  ELSE "desktop"

\* Lines 375-379 and 492-498: the form is on the screen.
FormShown == View \in {"mobile", "desktop"} /\ availableTickets # 0

\* The inputs of the form wired to handleInputChange: lines 403-425 on mobile,
\* lines 503-599 on desktop.
InputNames == IF isMobile THEN {"nota", "placa"} ELSE Fields \ {"ticketAsociado"}

\* The pending timeouts once the message they were scheduled with is gone.
Stale(q) == [i \in 1..Len(q) |-> [q[i] EXCEPT !.own = FALSE]]

InsertAt(q, i, e) == SubSeq(q, 1, i - 1) \o <<e>> \o SubSeq(q, i, Len(q))

\* setTimeout(() => setMessage(""), d): the timeout expires after those pending
\* that were scheduled with the same or a shorter delay, and before or after
\* those scheduled earlier with a longer one.  own: it is scheduled with the
\* message that is on the screen.
Schedule(q, d, o) ==
  {InsertAt(q, i, [own |-> o, delay |-> d]) :
     i \in {j \in 1..(Len(q) + 1) : \A k \in j..Len(q) : q[k].delay > d}}

\* setMessage(m) followed by setTimeout(() => setMessage(""), d).
ShowMessage(m, d) ==
  /\ Len(timers) < MaxTimers
  /\ message' = m
  /\ timers' \in Schedule(Stale(timers), d, TRUE)

\* Lines 75-102 and 161-178: the component has mounted and its first effect has
\* started fetchCars and fetchAvailableTickets.
InitCar ==
  /\ NoServer
  /\ formData = EmptyForm
  /\ capturedImages = NoImages
  /\ isMobile \in BOOLEAN
  /\ isSubmitting = FALSE
  /\ showVehicleCapture = FALSE
  /\ selectedCarImages = NoCar
  /\ isLoading = TRUE
  /\ cameraRetryCount = 0
  /\ message = ""
  /\ timers = <<>>
  /\ cars = 0
  /\ availableTickets = 0
  /\ carFlights = {1}
  /\ nextFetch = 2
  /\ ticketFlights = 0
  /\ spc = "idle"
  /\ waits = [mount |-> [cars |-> 1, tickets |-> TRUE], submit |-> Settled]
  /\ submitted = NoSubmit
  /\ onUpdate \in BOOLEAN
  /\ updates = 0
  /\ screen = NoScreen

\* handleSubmit leaving isSubmitting as it is when the request throws.
FinallyMissing(thrown) == IF thrown THEN isSubmitting ELSE FALSE

\* Lines 283-285: finally { setIsSubmitting(false) }, however the try block has
\* ended (thrown: in the catch block).
Finally(thrown) == FALSE

\* AfterFetch with handleSubmit awaiting fetchCars only.
AfterFetchCarsOnly(w) ==
  /\ waits' = w
  /\ isLoading' = IF waits.mount # Settled /\ w.mount = Settled THEN FALSE ELSE isLoading
  /\ IF waits.submit.cars # 0 /\ w.submit.cars = 0
     THEN /\ Len(timers) < MaxTimers
          /\ updates' = IF onUpdate THEN updates + 1 ELSE updates
          /\ timers' \in Schedule(timers, MessageDelay, message = MsgOk)
          /\ isSubmitting' = Finally(FALSE)
          /\ spc' = "idle"
     ELSE UNCHANGED <<updates, timers, isSubmitting, spc>>

\* What runs when a fetch has settled and w is what the two Promise.all still
\* wait for.  Lines 166-177: the first effect's Promise.all has settled.  Lines
\* 273-285: handleSubmit goes on after its Promise.all: onUpdate, the timeout,
\* finally.
AfterFetch(w) ==
  /\ waits' = w
  /\ isLoading' = IF waits.mount # Settled /\ w.mount = Settled THEN FALSE ELSE isLoading
  /\ IF waits.submit # Settled /\ w.submit = Settled
     THEN /\ Len(timers) < MaxTimers
          /\ updates' = IF onUpdate THEN updates + 1 ELSE updates
          /\ timers' \in Schedule(timers, MessageDelay, message = MsgOk)
          /\ isSubmitting' = Finally(FALSE)
          /\ spc' = "idle"
     ELSE UNCHANGED <<updates, timers, isSubmitting, spc>>

\* Lines 104-130: a fetchCars request settles.  ok: the response is ok and its
\* JSON is read, and setCars stores it; otherwise the error is logged.
CarsResponse ==
  /\ \E i \in carFlights, ok \in BOOLEAN :
       /\ carFlights' = carFlights \ {i}
       /\ cars' = IF ok THEN i ELSE cars
       /\ AfterFetch([w \in DOMAIN waits |->
                        IF waits[w].cars = i THEN [waits[w] EXCEPT !.cars = 0]
                        ELSE waits[w]])
  /\ screen' = NoScreen
  /\ UNCHANGED <<serverVars, formData, capturedImages, isMobile, showVehicleCapture,
                 selectedCarImages, cameraRetryCount, message, availableTickets,
                 nextFetch, ticketFlights, submitted, onUpdate>>

\* Lines 132-159: a fetchAvailableTickets request settles: that of the first
\* effect, that of handleSubmit, or one that nothing awaits.  ok: setAvailableTickets
\* stores the n tickets of the response (or keeps the equal array it has).
TicketsResponse ==
  /\ \E who \in {"mount", "submit", "other"}, ok \in BOOLEAN, n \in 0..1 :
       /\ IF who = "other" THEN ticketFlights > 0 ELSE waits[who].tickets
       /\ ~ok => n = availableTickets
       /\ availableTickets' = n
       /\ ticketFlights' = IF who = "other" THEN ticketFlights - 1 ELSE ticketFlights
       /\ AfterFetch([w \in DOMAIN waits |->
                        IF w = who THEN [waits[w] EXCEPT !.tickets = FALSE]
                        ELSE waits[w]])
  /\ screen' = NoScreen
  /\ UNCHANGED <<serverVars, formData, capturedImages, isMobile, showVehicleCapture,
                 selectedCarImages, cameraRetryCount, message, cars, carFlights,
                 nextFetch, submitted, onUpdate>>

\* Lines 225, 279, 282, 306, 315: the timeout that expires first fires:
\* setMessage("").
TimerFires ==
  /\ timers # <<>>
  /\ message' = ""
  /\ timers' = Stale(Tail(timers))
  /\ screen' = NoScreen
  /\ UNCHANGED <<serverVars, formData, capturedImages, isMobile, isSubmitting,
                 showVehicleCapture, selectedCarImages, isLoading, cameraRetryCount,
                 cars, availableTickets, carFlights, nextFetch, ticketFlights, spc,
                 waits, submitted, onUpdate, updates>>

\* Lines 188-191: the user changes one input of the form.
HandleInputChange ==
  /\ FormShown
  /\ \E name \in InputNames, value \in {Empty, Typed} :
       /\ formData[name] # value
       /\ formData' = [formData EXCEPT ![name] = value]
  /\ screen' = NoScreen
  /\ UNCHANGED <<serverVars, capturedImages, isMobile, isSubmitting, showVehicleCapture,
                 selectedCarImages, isLoading, cameraRetryCount, message, timers, cars,
                 availableTickets, carFlights, nextFetch, ticketFlights, spc, waits,
                 submitted, onUpdate, updates>>

\* Lines 193-195 and 431-446: the user selects one of the available tickets.
HandleTicketChange ==
  /\ FormShown
  /\ formData["ticketAsociado"] # Typed
  /\ formData' = [formData EXCEPT !["ticketAsociado"] = Typed]
  /\ screen' = NoScreen
  /\ UNCHANGED <<serverVars, capturedImages, isMobile, isSubmitting, showVehicleCapture,
                 selectedCarImages, isLoading, cameraRetryCount, message, timers, cars,
                 availableTickets, carFlights, nextFetch, ticketFlights, spc, waits,
                 submitted, onUpdate, updates>>

\* handleSubmit attaching the images whether or not there are any.
SubmitDataAlwaysImages ==
  [sent |-> TRUE, formData |-> formData, imagenes |-> TRUE, images |-> capturedImages,
   capturaMetodo |-> IF isMobile THEN "camara_movil" ELSE "camara_desktop"]

\* Lines 236-247: submitData.  imagenes: the key is there (undefined is left out
\* by JSON.stringify).
SubmitData ==
  [sent |-> TRUE, formData |-> formData, imagenes |-> capturedImages # NoImages,
   images |-> capturedImages,
   capturaMetodo |-> IF capturedImages = NoImages THEN ""
                     ELSE IF isMobile THEN "camara_movil" ELSE "camara_desktop"]

\* Lines 230-257: the form is submitted (its button is enabled): handleSubmit
\* runs up to the awaited fetch.
HandleSubmit ==
  /\ FormShown
  /\ ~SubmitDisabled
  /\ isSubmitting' = TRUE
  /\ message' = ""
  /\ timers' = Stale(timers)
  /\ submitted' = SubmitData
  /\ updates' = 0
  /\ spc' = "posting"
  /\ screen' = NoScreen
  /\ UNCHANGED <<serverVars, formData, capturedImages, isMobile, showVehicleCapture,
                 selectedCarImages, isLoading, cameraRetryCount, cars, availableTickets,
                 carFlights, nextFetch, ticketFlights, waits, onUpdate>>

\* Lines 258-271: the POST is answered with an ok response whose JSON is read:
\* the message, the reset of the form, and the two refetches are started.
PostAccepted ==
  /\ spc = "posting"
  /\ nextFetch <= MaxFetch
  /\ message' = MsgOk
  /\ timers' = Stale(timers)
  /\ formData' = EmptyForm
  /\ capturedImages' = NoImages
  /\ carFlights' = carFlights \cup {nextFetch}
  /\ nextFetch' = nextFetch + 1
  /\ waits' = [waits EXCEPT !.submit = [cars |-> nextFetch, tickets |-> TRUE]]
  /\ spc' = "refetching"
  /\ screen' = NoScreen
  /\ UNCHANGED <<serverVars, isMobile, isSubmitting, showVehicleCapture,
                 selectedCarImages, isLoading, cameraRetryCount, cars, availableTickets,
                 ticketFlights, submitted, onUpdate, updates>>

\* Lines 276-285: the POST is answered with a response that is not ok.
PostRejected ==
  /\ spc = "posting"
  /\ ShowMessage(MsgRejected, MessageDelay)
  /\ isSubmitting' = Finally(FALSE)
  /\ spc' = "idle"
  /\ screen' = NoScreen
  /\ UNCHANGED <<serverVars, formData, capturedImages, isMobile, showVehicleCapture,
                 selectedCarImages, isLoading, cameraRetryCount, cars, availableTickets,
                 carFlights, nextFetch, ticketFlights, waits, submitted, onUpdate,
                 updates>>

\* Lines 280-285: fetch rejects, or response.json() throws: the catch block.
PostThrows ==
  /\ spc = "posting"
  /\ ShowMessage(MsgFailed, MessageDelay)
  /\ isSubmitting' = Finally(TRUE)
  /\ spc' = "idle"
  /\ screen' = NoScreen
  /\ UNCHANGED <<serverVars, formData, capturedImages, isMobile, showVehicleCapture,
                 selectedCarImages, isLoading, cameraRetryCount, cars, availableTickets,
                 carFlights, nextFetch, ticketFlights, waits, submitted, onUpdate,
                 updates>>

\* OpenCamera comparing with <= instead of <.
OpenCameraOffByOne ==
  /\ View = "mobile"
  /\ availableTickets # 0
  /\ IF cameraRetryCount <= MaxRetries
     THEN /\ showVehicleCapture' = TRUE
          /\ cameraRetryCount' = cameraRetryCount + 1
          /\ UNCHANGED <<message, timers>>
     ELSE /\ ShowMessage(MsgMaxRetries, MessageDelay)
          /\ UNCHANGED <<showVehicleCapture, cameraRetryCount>>
  /\ screen' = NoScreen
  /\ UNCHANGED <<serverVars, formData, capturedImages, isMobile, isSubmitting,
                 selectedCarImages, isLoading, cars, availableTickets, carFlights,
                 nextFetch, ticketFlights, spc, waits, submitted, onUpdate, updates>>

\* Lines 297-308 and 381: the user presses "Capturar Vehiculo".
OpenCamera ==
  /\ View = "mobile"
  /\ availableTickets # 0
  /\ IF cameraRetryCount < MaxRetries
     THEN /\ showVehicleCapture' = TRUE
          /\ cameraRetryCount' = cameraRetryCount + 1
          /\ UNCHANGED <<message, timers>>
     ELSE /\ ShowMessage(MsgMaxRetries, MessageDelay)
          /\ UNCHANGED <<showVehicleCapture, cameraRetryCount>>
  /\ screen' = NoScreen
  /\ UNCHANGED <<serverVars, formData, capturedImages, isMobile, isSubmitting,
                 selectedCarImages, isLoading, cars, availableTickets, carFlights,
                 nextFetch, ticketFlights, spc, waits, submitted, onUpdate, updates>>

\* OpenCamera for a user who opens the camera MaxOpenings times at most.
OpenCameraFewTimes == cameraRetryCount < MaxOpenings /\ OpenCamera

\* Line 348: onCancel of VehicleCapture.
CancelCapture ==
  /\ View = "capture"
  /\ showVehicleCapture' = FALSE
  /\ screen' = NoScreen
  /\ UNCHANGED <<serverVars, formData, capturedImages, isMobile, isSubmitting,
                 selectedCarImages, isLoading, cameraRetryCount, message, timers, cars,
                 availableTickets, carFlights, nextFetch, ticketFlights, spc, waits,
                 submitted, onUpdate, updates>>

\* handleVehicleDetected replacing the form by the vehicle's data.
DetectedFormOnly(d) ==
  [f \in Fields |-> IF f \in VehicleFields THEN d[f] ELSE Empty]

\* Lines 208-214: setFormData((prev) => ({ ...prev, placa, marca, modelo, color })).
DetectedForm(d) ==
  [f \in Fields |-> IF f \in VehicleFields THEN d[f] ELSE formData[f]]

\* Lines 197-228: VehicleCapture reports a vehicle.
HandleVehicleDetected ==
  /\ View = "capture"
  /\ \E d \in VehicleDatas :
       /\ formData' = DetectedForm(d)
       /\ capturedImages' = [placaUrl |-> d.plateImageUrl, vehiculoUrl |-> d.vehicleImageUrl,
                             confianzaPlaca |-> d.plateConfidence,
                             confianzaVehiculo |-> d.vehicleConfidence]
  /\ showVehicleCapture' = FALSE
  /\ ShowMessage(MsgCaptured, MessageDelay)
  /\ screen' = NoScreen
  /\ UNCHANGED <<serverVars, isMobile, isSubmitting, selectedCarImages, isLoading,
                 cameraRetryCount, cars, availableTickets, carFlights, nextFetch,
                 ticketFlights, spc, waits, submitted, onUpdate, updates>>

\* MobileDetected with the first effect showing the spinner again when it re-runs.
MobileDetectedLoadingAgain ==
  /\ nextFetch <= MaxFetch
  /\ ticketFlights < MaxFetch
  /\ isMobile' = ~isMobile
  /\ isLoading' = TRUE
  /\ carFlights' = carFlights \cup {nextFetch}
  /\ nextFetch' = nextFetch + 1
  /\ IF waits.mount = Settled
     THEN /\ waits' = [waits EXCEPT !.mount = [cars |-> nextFetch, tickets |-> TRUE]]
          /\ ticketFlights' = ticketFlights
     ELSE /\ waits' = waits
          /\ ticketFlights' = ticketFlights + 1
  /\ screen' = NoScreen
  /\ UNCHANGED <<serverVars, formData, capturedImages, isSubmitting, showVehicleCapture,
                 selectedCarImages, cameraRetryCount, message, timers, cars,
                 availableTickets, spc, submitted, onUpdate, updates>>

\* Lines 82 and 161-178: useMobileDetection() returns the other value (the
\* window is resized); the first effect runs again and starts both fetches, and
\* its Promise.all ends in setIsLoading(false).
MobileDetected ==
  /\ nextFetch <= MaxFetch
  /\ ticketFlights < MaxFetch
  /\ isMobile' = ~isMobile
  /\ carFlights' = carFlights \cup {nextFetch}
  /\ nextFetch' = nextFetch + 1
  /\ IF waits.mount = Settled
     THEN /\ waits' = [waits EXCEPT !.mount = [cars |-> nextFetch, tickets |-> TRUE]]
          /\ ticketFlights' = ticketFlights
     ELSE /\ waits' = waits
          /\ ticketFlights' = ticketFlights + 1
  /\ screen' = NoScreen
  /\ UNCHANGED <<serverVars, formData, capturedImages, isSubmitting, showVehicleCapture,
                 selectedCarImages, isLoading, cameraRetryCount, message, timers, cars,
                 availableTickets, spc, submitted, onUpdate, updates>>

\* Lines 470, 693 and 703: the user opens the images of a car of the list.
ViewImages ==
  /\ View \in {"mobile", "desktop"}
  /\ cars # 0
  /\ selectedCarImages' = "car"
  /\ screen' = NoScreen
  /\ UNCHANGED <<serverVars, formData, capturedImages, isMobile, isSubmitting,
                 showVehicleCapture, isLoading, cameraRetryCount, message, timers, cars,
                 availableTickets, carFlights, nextFetch, ticketFlights, spc, waits,
                 submitted, onUpdate, updates>>

\* Line 353: onClose of CarImageViewer.
CloseViewer ==
  /\ View = "viewer"
  /\ selectedCarImages' = NoCar
  /\ screen' = NoScreen
  /\ UNCHANGED <<serverVars, formData, capturedImages, isMobile, isSubmitting,
                 showVehicleCapture, isLoading, cameraRetryCount, message, timers, cars,
                 availableTickets, carFlights, nextFetch, ticketFlights, spc, waits,
                 submitted, onUpdate, updates>>

\* Lines 311-319: CarImageViewer reports that the car was edited: fetchCars is
\* started, the viewer is closed, the message is shown (and the parent's
\* onUpdate, if there is one, is called).
HandleCarUpdate ==
  /\ View = "viewer"
  /\ nextFetch <= MaxFetch
  /\ carFlights' = carFlights \cup {nextFetch}
  /\ nextFetch' = nextFetch + 1
  /\ selectedCarImages' = NoCar
  /\ ShowMessage(MsgUpdated, UpdateDelay)
  /\ screen' = NoScreen
  /\ UNCHANGED <<serverVars, formData, capturedImages, isMobile, isSubmitting,
                 showVehicleCapture, isLoading, cameraRetryCount, cars, availableTickets,
                 ticketFlights, spc, waits, submitted, onUpdate, updates>>

\* Lines 470 and 617: the user asks for the list of cars again.
Refresh ==
  /\ View \in {"mobile", "desktop"}
  /\ nextFetch <= MaxFetch
  /\ carFlights' = carFlights \cup {nextFetch}
  /\ nextFetch' = nextFetch + 1
  /\ screen' = NoScreen
  /\ UNCHANGED <<serverVars, formData, capturedImages, isMobile, isSubmitting,
                 showVehicleCapture, selectedCarImages, isLoading, cameraRetryCount,
                 message, timers, cars, availableTickets, ticketFlights, spc, waits,
                 submitted, onUpdate, updates>>

\* Lines 180-186: the 60 s interval fires: fetchCars and fetchAvailableTickets
\* are started and nothing awaits them.
IntervalFires ==
  /\ nextFetch <= MaxFetch
  /\ ticketFlights < MaxFetch
  /\ carFlights' = carFlights \cup {nextFetch}
  /\ nextFetch' = nextFetch + 1
  /\ ticketFlights' = ticketFlights + 1
  /\ screen' = NoScreen
  /\ UNCHANGED <<serverVars, formData, capturedImages, isMobile, isSubmitting,
                 showVehicleCapture, selectedCarImages, isLoading, cameraRetryCount,
                 message, timers, cars, availableTickets, spc, waits, submitted,
                 onUpdate, updates>>

\* ------------------------------------------------- one handler at a time
\* What the fields of the form can hold.
Texts == {Empty, Blank, Padded}

\* capturedImages after a capture.
Captured == [placaUrl |-> "plate.jpg", vehiculoUrl |-> "vehicle.jpg",
             confianzaPlaca |-> 90, confianzaVehiculo |-> 80]

\* Lines 327-357, 451-455 and 603: the component is rendered: the view, and the
\* submit button when the view holds the form.
Render ==
  /\ ~screen.rendered
  /\ screen' = [rendered |-> TRUE, view |-> View, button |-> FormShown,
                valid |-> FormShown /\ IsFormValid,
                disabled |-> ~FormShown \/ SubmitDisabled]
  /\ UNCHANGED <<serverVars, formData, capturedImages, isMobile, isSubmitting,
                 showVehicleCapture, selectedCarImages, isLoading, cameraRetryCount,
                 message, timers, cars, availableTickets, carFlights, nextFetch,
                 ticketFlights, spc, waits, submitted, onUpdate, updates>>

\* The component at some moment of its life: loading, or loaded with anything
\* in the form, with or without captured images, a submission under way or not,
\* and the capture view or the image viewer open or not.  useMobileDetection()
\* returns either value, whatever it returned before.
InitForm ==
  /\ NoServer
  /\ isLoading \in BOOLEAN
  /\ isMobile \in BOOLEAN
  /\ formData \in IF isLoading THEN {EmptyForm} ELSE [Fields -> Texts]
  /\ capturedImages \in IF isLoading THEN {NoImages} ELSE {NoImages, Captured}
  /\ isSubmitting \in IF isLoading THEN {FALSE} ELSE BOOLEAN
  /\ spc = IF isSubmitting THEN "posting" ELSE "idle"
  /\ submitted = IF isSubmitting
                 THEN [NoSubmit EXCEPT !.sent = TRUE, !.formData = [f \in Fields |-> Padded]]
                 ELSE NoSubmit
  /\ showVehicleCapture \in IF isLoading THEN {FALSE} ELSE BOOLEAN
  /\ selectedCarImages \in IF isLoading \/ showVehicleCapture THEN {NoCar}
                           ELSE {NoCar, "car"}
  /\ cameraRetryCount = IF showVehicleCapture \/ capturedImages # NoImages THEN 1 ELSE 0
  /\ availableTickets = IF isLoading THEN 0 ELSE 1
  /\ cars = IF isLoading THEN 0 ELSE 1
  /\ carFlights = IF isLoading THEN {1} ELSE {}
  /\ nextFetch = 2
  /\ ticketFlights = 0
  /\ waits = [mount |-> IF isLoading THEN [cars |-> 1, tickets |-> TRUE] ELSE Settled,
              submit |-> Settled]
  /\ message = ""
  /\ timers = <<>>
  /\ onUpdate = FALSE
  /\ updates = 0
  /\ screen = NoScreen

\* The component is rendered, or one handler runs on what the form holds.
NextForm ==
  \/ Render
  \/ HandleSubmit
  \/ HandleVehicleDetected

SpecForm == InitForm /\ [][NextForm]_vars

\* ------------------------------------------------- what the user does
\* The user fills in the form, with or without the camera, and submits it.
NextRegister ==
  \/ CarsResponse
  \/ TicketsResponse
  \/ TimerFires
  \/ HandleInputChange
  \/ HandleTicketChange
  \/ HandleSubmit
  \/ PostAccepted
  \/ PostRejected
  \/ PostThrows
  \/ OpenCameraFewTimes
  \/ CancelCapture
  \/ HandleVehicleDetected

SpecRegister == InitCar /\ [][NextRegister]_vars

\* The user opens the camera again and again.
NextCamera ==
  \/ CarsResponse
  \/ TicketsResponse
  \/ TimerFires
  \/ OpenCamera
  \/ CancelCapture
  \/ HandleVehicleDetected

SpecCamera == InitCar /\ [][NextCamera]_vars

\* The user looks at the list of cars, edits cars and captures vehicles, while
\* the list is fetched again and again.
NextList ==
  \/ CarsResponse
  \/ TicketsResponse
  \/ TimerFires
  \/ Refresh
  \/ IntervalFires
  \/ MobileDetected
  \/ ViewImages
  \/ CloseViewer
  \/ HandleCarUpdate
  \/ OpenCameraFewTimes
  \/ CancelCapture
  \/ HandleVehicleDetected

SpecList == InitCar /\ [][NextList]_vars

\* The component loads and is rendered, while the window is resized and the
\* 60 s interval fires.  Every request that is in flight is answered in the
\* end: with an ok response, with another status, or with an error.
NextLoad ==
  \/ CarsResponse
  \/ TicketsResponse
  \/ IntervalFires
  \/ MobileDetected
  \/ Render

SpecLoad ==
  /\ InitCar
  /\ [][NextLoad]_vars
  /\ WF_vars(CarsResponse)
  /\ WF_vars(TicketsResponse)

\* ================================================================ claims
\* Request p has been answered.
Done(p) == pc[p] = "done"

\* Request p has been answered and no other request ran while it was served.
DoneAlone(p) == pc[p] = "done" /\ alone[p]

\* The documents of collection S with endpoint e, and with the pair (e, u).
WithEndpoint(S, e) == {r \in S : r.endpoint = e}
WithPair(S, e, u) == {r \in S : r.endpoint = e /\ r.userType = u}

\* ---------------------------------------------------------------- C1
\* C1: a GET /api/admin/pending-payments that the database served returns, once
\* each, exactly the documents of pagos whose estado is "pendiente_validacion"
\* and whose estadoValidacion is "pendiente".
C1_ExactlyPending ==
  gpc = "returned" =>
    /\ gresp.status = 200
    /\ {gresp.body[i].id : i \in DOMAIN gresp.body}
         = {d.id : d \in {x \in pagos : x.estado = "pendiente_validacion"
                                          /\ x.estadoValidacion = "pendiente"}}
    /\ \A i, j \in DOMAIN gresp.body : gresp.body[i].id = gresp.body[j].id => i = j

\* A list of two payments was returned while pagos also holds a document that
\* fails the second condition alone.
C1_Witness ==
  /\ gpc = "returned"
  /\ Len(gresp.body) = 2
  /\ \E d \in pagos : d.estado = "pendiente_validacion" /\ d.estadoValidacion # "pendiente"

\* ---------------------------------------------------------------- C8
\* C8: the list returned is ordered by fechaPago descending (a payment with a
\* later fechaPago comes before one with an earlier fechaPago), and when the
\* database fails the answer is status 500 with a message and no list.
C8_SortedOrError ==
  /\ gpc = "returned" =>
       \A i, j \in DOMAIN gresp.body :
         gresp.body[i].fechaPago > gresp.body[j].fechaPago => i < j
  /\ gpc = "caught" =>
       gresp.status = 500 /\ gresp.message # "" /\ gresp.body = NoList

\* Three payments of two different dates were returned.
C8_Witness ==
  /\ gpc = "returned"
  /\ Len(gresp.body) = 3
  /\ gresp.body[1].fechaPago # gresp.body[3].fechaPago

\* ---------------------------------------------------------------- C2
\* C2: a push-subscription request whose body fails validation is answered with
\* status 400 and leaves ticket_subscriptions as it was (here: for every such
\* request that the database connection did not fail).
C2_InvalidBodyIs400 ==
  \A p \in Procs :
    (Done(p) /\ ~Valid(req[p]) /\ resp[p].error # "db")
      => resp[p].status = 400 /\ subs = before[p]

\* ---------------------------------------------------------------- C3
\* C3: after a POST that ran alone has been answered 201, ticket_subscriptions
\* holds exactly one document with the request's endpoint and userType; it is
\* active, its stage is "active", and its id is the subscriptionId returned.
C3_PostLeavesOne ==
  \A p \in Procs :
    (DoneAlone(p) /\ resp[p].status = 201)
      => LET mine == WithPair(subs, req[p].endpoint, req[p].userType)
         IN /\ Cardinality(mine) = 1
            /\ \A r \in mine : r.isActive /\ r.stage = "active" /\ r.id = resp[p].id

\* A POST was answered 201 where two documents of its pair existed before, one
\* active and one unsubscribed.
C3_Witness ==
  \E p \in Procs :
    /\ DoneAlone(p) /\ resp[p].status = 201
    /\ LET old == WithPair(before[p], req[p].endpoint, req[p].userType)
       IN /\ Cardinality(old) >= 2
          /\ \E r \in old : r.isActive
          /\ \E r \in old : ~r.isActive

\* ---------------------------------------------------------------- C4
\* C4: a DELETE that ran alone, was served by the database and whose endpoint
\* matched at least one document has left every document with that endpoint
\* inactive and "unsubscribed", has removed none, and is answered 200 with
\* deactivated = the number of documents with that endpoint.
C4_DeleteDeactivatesAll ==
  \A p \in Procs :
    (/\ DoneAlone(p) /\ req[p].method = "DELETE" /\ Valid(req[p])
     /\ resp[p].status # 500
     /\ WithEndpoint(before[p], req[p].endpoint) # {})
      => /\ \A r \in WithEndpoint(subs, req[p].endpoint) :
              ~r.isActive /\ r.stage = "unsubscribed"
         /\ Cardinality(subs) = Cardinality(before[p])
         /\ resp[p].status = 200
         /\ resp[p].n = Cardinality(WithEndpoint(before[p], req[p].endpoint))

\* ---------------------------------------------------------------- C5
\* C5: a DELETE (that ran alone and was served by the database) is answered 404
\* exactly when no document has its endpoint, and then the collection is
\* unchanged; a POST is never answered 404.
C5_NotFoundIffNoMatch ==
  \A p \in Procs :
    /\ (DoneAlone(p) /\ req[p].method = "DELETE" /\ Valid(req[p]) /\ resp[p].status # 500)
         => /\ resp[p].status = 404 <=> WithEndpoint(before[p], req[p].endpoint) = {}
            /\ resp[p].status = 404 => subs = before[p]
    /\ (Done(p) /\ req[p].method = "POST") => resp[p].status # 404

\* ---------------------------------------------------------------- C6
\* C6: every step of a POST for (E, U) leaves in place, unchanged, the documents
\* whose endpoint is not E or whose userType is not U, and every step of a DELETE
\* for E those whose endpoint is not E.
NotKeyedOn(b, r) ==
  IF b.method = "POST" THEN r.endpoint # b.endpoint \/ r.userType # b.userType
  ELSE IF b.method = "DELETE" THEN r.endpoint # b.endpoint
  ELSE TRUE

C6_OthersUntouched ==
  [][\A p \in Procs :
       pc'[p] # pc[p] => \A r \in subs : NotKeyedOn(req[p], r) => r \in subs']_vars

\* A POST was answered 201 where a document of the same endpoint and another
\* userType, and a document of another endpoint, existed before; both are there.
C6_Witness ==
  \E p \in Procs :
    /\ DoneAlone(p) /\ resp[p].status = 201
    /\ \E r \in before[p] \cap subs :
         r.endpoint = req[p].endpoint /\ r.userType # req[p].userType
    /\ \E r \in before[p] \cap subs : r.endpoint # req[p].endpoint

\* ---------------------------------------------------------------- C7
\* C7: when a POST (that ran alone) is answered 500 because a database call
\* failed, ticket_subscriptions is as it was when the request arrived; stated
\* here in the particular the claim names: if a subscription existed for the
\* request's (endpoint, userType) before, one exists afterwards.
C7_FailedPostKeepsSubscription ==
  \A p \in Procs :
    (DoneAlone(p) /\ req[p].method = "POST" /\ resp[p].status = 500 /\ resp[p].error = "db")
      => (WithPair(before[p], req[p].endpoint, req[p].userType) # {}
            => WithPair(subs, req[p].endpoint, req[p].userType) # {})

\* ---------------------------------------------------------------- C9
\* C9: once every request in flight has been answered, ticket_subscriptions
\* holds at most one document per (endpoint, userType).
C9_OnePerPair ==
  (\A p \in Procs : pc[p] \in {"idle", "done"})
    => \A r1, r2 \in subs :
         (r1.endpoint = r2.endpoint /\ r1.userType = r2.userType) => r1 = r2

\* ---------------------------------------------------------------- C10
\* C10: in every document of ticket_subscriptions isActive is true exactly when
\* the stage is "active" and false exactly when it is "unsubscribed"; there is
\* no other stage.
C10_StageFollowsActive ==
  \A r \in subs :
    /\ r.stage \in {"active", "unsubscribed"}
    /\ r.isActive <=> r.stage = "active"
    /\ ~r.isActive <=> r.stage = "unsubscribed"

\* The collection holds an active document and an unsubscribed one.
C10_Witness ==
  /\ \E r \in subs : r.isActive
  /\ \E r \in subs : ~r.isActive

\* ---------------------------------------------------------------- C11
\* The ticketCodes array a POST with ticket code c stores.
Sent(c) == IF c = Missing THEN <<>> ELSE <<c>>

\* C11: with requests served one after the other, the record a POST answered
\* 201 has created holds exactly the ticket code sent with it (none: the empty
\* list), it is the only record of its (endpoint, userType), whatever the
\* replaced records held, and no record ever holds more than one ticket code.
C11_TicketCodesOfLastPost ==
  /\ \A r \in subs : Len(r.ticketCodes) <= 1
  /\ (last.method = "POST" /\ last.status = 201) =>
       /\ \E r \in subs : r.id = last.id /\ r.ticketCodes = Sent(last.ticketCode)
       /\ \A r \in WithPair(subs, last.endpoint, last.userType) :
            r.id = last.id /\ r.ticketCodes = Sent(last.ticketCode)

\* A POST answered 201 has replaced a record that held another ticket code.
C11_Witness ==
  /\ last.method = "POST"
  /\ last.status = 201
  /\ \E c \in last.replaced : c # <<>> /\ c # Sent(last.ticketCode)
  /\ \E r \in subs : r.id = last.id

\* ---------------------------------------------------------------- C12
\* The subscription status of every record of collection S.
Status(S) == {<<r.id, r.isActive, r.stage>> : r \in S}

\* C12: a DELETE that follows a served DELETE for the same endpoint leaves the
\* isActive and lifecycle.stage of every record as the first one left them; no
\* DELETE makes a record active; and a record marked unsubscribed stays so for
\* as long as it is in the collection (only a POST, which removes it and inserts
\* a new record, brings an active record back).
C12_DeleteIdempotent ==
  [][/\ (last'.method = "DELETE" /\ last'.again) => Status(subs') = Status(subs)
     /\ last'.method = "DELETE" => \A s \in subs' : s.isActive => s \in subs
     /\ \A r \in subs, s \in subs' :
          (r.id = s.id /\ ~r.isActive) => (~s.isActive /\ s.stage = "unsubscribed")
     /\ (\E s \in subs' : s.isActive /\ s \notin subs) => last'.method = "POST"]_vars

\* A second DELETE in a row for an endpoint has run on a record that the first
\* had unsubscribed, and has been answered 200 as the clock had moved on.
C12_Witness ==
  /\ last.method = "DELETE"
  /\ last.again
  /\ last.status = 200
  /\ \E r \in subs : r.endpoint = last.endpoint /\ ~r.isActive /\ r.unsubscribedAt = now

\* ---------------------------------------------------------------- C13
\* The string holds a character that is not white space.
NonBlank(s) == \E i \in 1..Len(s) : s[i] # " "

\* C13: the rendered button has isFormValid true exactly when, on mobile, placa
\* and ticketAsociado hold more than white space and, on desktop, all eight
\* fields do; and it is enabled exactly when the form is valid and no submission
\* is under way.
C13_ValidAndEnabled ==
  (screen.rendered /\ screen.button) =>
    /\ screen.valid <=>
         IF isMobile THEN NonBlank(formData["placa"]) /\ NonBlank(formData["ticketAsociado"])
         ELSE \A f \in Fields : NonBlank(formData[f])
    /\ ~screen.disabled <=> (screen.valid /\ ~isSubmitting)

\* On mobile the button is enabled with padded values in the two fields that
\* count and white space only in another one.
C13_Witness ==
  /\ screen.rendered
  /\ screen.button
  /\ isMobile
  /\ ~screen.disabled
  /\ formData["placa"] = Padded
  /\ formData["marca"] = Blank
  /\ formData["nota"] = Empty

\* ---------------------------------------------------------------- C14
\* C14: isSubmitting is true exactly while a handleSubmit is between its start
\* and its end, however it ends: rejected, thrown, or accepted with the two
\* refetches settled, whether they failed or not.
C14_SubmittingWhileInProgress == isSubmitting <=> spc # "idle"

\* A submission has ended in the catch block and isSubmitting is false again.
C14_Witness ==
  /\ submitted.sent
  /\ spc = "idle"
  /\ ~isSubmitting
  /\ message = MsgFailed

\* ---------------------------------------------------------------- C15
\* C15: the step in which handleSubmit learns that the response is ok empties
\* the eight fields and capturedImages and starts both refetches; onUpdate is
\* not called while one of them is pending, and is called once (if it was
\* passed) in the step in which both have settled; a step that ends the
\* submission with a response that is not ok or in the catch block leaves
\* formData and capturedImages as they are and does not call onUpdate; and no
\* other step of handleSubmit changes formData or capturedImages.
C15_ClearsOnlyOnSuccess ==
  [][/\ (spc = "posting" /\ spc' = "refetching") =>
          /\ formData' = EmptyForm
          /\ capturedImages' = NoImages
          /\ waits'.submit.cars \in carFlights' \ carFlights
          /\ waits'.submit.tickets
          /\ updates' = 0
     /\ (spc = "refetching" /\ spc' = "refetching") => updates' = 0
     /\ (spc = "refetching" /\ spc' = "idle") =>
          /\ waits'.submit = Settled
          /\ waits.submit.cars \notin carFlights'
          /\ updates' = IF onUpdate THEN 1 ELSE 0
     /\ (spc = "posting" /\ spc' = "idle") =>
          /\ formData' = formData
          /\ capturedImages' = capturedImages
          /\ updates' = 0
     /\ (spc' # spc /\ (formData' # formData \/ capturedImages' # capturedImages)) =>
          (spc = "posting" /\ spc' = "refetching")
     /\ (spc' = spc /\ spc = "idle") => updates' = updates]_vars

\* A submission of a form with captured images has been accepted: the form is
\* empty, both refetches have settled and onUpdate has been called once.
C15_Witness ==
  /\ submitted.sent
  /\ submitted.imagenes
  /\ submitted.formData["nota"] = Typed
  /\ spc = "idle"
  /\ message = MsgOk
  /\ formData = EmptyForm
  /\ capturedImages = NoImages
  /\ onUpdate
  /\ updates = 1

\* ---------------------------------------------------------------- C16
\* C16: cameraRetryCount only ever goes up, by one, in the step that opens the
\* capture view, and never beyond 10; the capture view is opened by no other
\* step, so at most 10 times; and with the count at 10 a press of the button
\* leaves the capture view closed and shows the error message.
C16_AtMostTenOpenings ==
  [][/\ cameraRetryCount' \in {cameraRetryCount, cameraRetryCount + 1}
     /\ cameraRetryCount' <= 10
     /\ (~showVehicleCapture /\ showVehicleCapture') <=>
          cameraRetryCount' = cameraRetryCount + 1
     /\ (message' = MsgMaxRetries /\ message # MsgMaxRetries) =>
          (cameraRetryCount = 10 /\ cameraRetryCount' = 10 /\ ~showVehicleCapture')]_vars

\* The camera has been opened ten times and a further press has been refused.
C16_Witness ==
  /\ cameraRetryCount = 10
  /\ ~showVehicleCapture
  /\ message = MsgMaxRetries

\* ---------------------------------------------------------------- C17
\* C17: what is rendered is one view: the spinner while isLoading; otherwise the
\* capture view if showVehicleCapture; otherwise the image viewer if a car is
\* selected; otherwise the mobile or the desktop form, as isMobile says.
C17_OneViewByPriority ==
  screen.rendered =>
    /\ isLoading => screen.view = "spinner"
    /\ (~isLoading /\ showVehicleCapture) => screen.view = "capture"
    /\ (~isLoading /\ ~showVehicleCapture /\ selectedCarImages # NoCar) =>
         screen.view = "viewer"
    /\ (~isLoading /\ ~showVehicleCapture /\ selectedCarImages = NoCar /\ isMobile) =>
         screen.view = "mobile"
    /\ (~isLoading /\ ~showVehicleCapture /\ selectedCarImages = NoCar /\ ~isMobile) =>
         screen.view = "desktop"

\* The image viewer is rendered on a mobile device, with a submission under way.
C17_Witness ==
  /\ screen.rendered
  /\ screen.view = "viewer"
  /\ isMobile
  /\ isSubmitting

\* ---------------------------------------------------------------- C18
\* C18: the step in which a vehicle is reported writes vehicleData's placa,
\* marca, modelo and color into the form, leaves the other four fields as they
\* are, and stores the two URLs and the two confidences; the body that
\* handleSubmit sends has the key imagenes exactly when capturedImages is not
\* null, then with capturaMetodo "camara_movil" on mobile and "camara_desktop"
\* elsewhere, and carries the form's fields.
C18_DetectedAndSubmitted ==
  [][/\ (showVehicleCapture /\ ~showVehicleCapture' /\ timers' # timers) =>
          \E d \in VehicleDatas :
            /\ formData'["placa"] = d.placa
            /\ formData'["marca"] = d.marca
            /\ formData'["modelo"] = d.modelo
            /\ formData'["color"] = d.color
            /\ \A f \in {"nombreDueno", "telefono", "ticketAsociado", "nota"} :
                 formData'[f] = formData[f]
            /\ capturedImages' = [placaUrl |-> d.plateImageUrl,
                                  vehiculoUrl |-> d.vehicleImageUrl,
                                  confianzaPlaca |-> d.plateConfidence,
                                  confianzaVehiculo |-> d.vehicleConfidence]
     /\ (spc = "idle" /\ spc' = "posting") =>
          /\ submitted'.imagenes <=> capturedImages # NoImages
          /\ submitted'.imagenes =>
               /\ submitted'.images = capturedImages
               /\ submitted'.capturaMetodo =
                    IF isMobile THEN "camara_movil" ELSE "camara_desktop"
          /\ submitted'.formData = formData]_vars

\* A vehicle was reported into a form that held a padded ticket and a blank
\* note, and the form was submitted from the desktop layout with its images.
C18_Witness ==
  /\ spc = "posting"
  /\ submitted.imagenes
  /\ submitted.capturaMetodo = "camara_desktop"
  /\ \A f \in VehicleFields : submitted.formData[f] = Detected
  /\ submitted.formData["nota"] = Padded
  /\ capturedImages = Captured

\* ---------------------------------------------------------------- C19
\* C19: a status message on the screen is cleared by the timeout that was
\* scheduled with it and by nothing else: in the step in which a message goes
\* away for the empty one, the timeout that fires is its own (so it has been
\* visible for its 5 s, or 3 s), never one scheduled with an earlier message.
C19_ClearedByOwnTimeout ==
  [][(message # "" /\ message' = "") =>
       /\ timers # <<>>
       /\ Head(timers).own
       /\ Len(timers') = Len(timers) - 1]_vars

\* ---------------------------------------------------------------- C20
\* C20: cars holds the response of the most recently issued of the fetchCars
\* requests that were answered: a response that arrives is stored or, if the
\* fetch failed, dropped, and one that was issued before the request whose
\* response cars holds does not replace it.
C20_NewestResponseKept ==
  [][\A i \in carFlights \ carFlights' :
       /\ cars' \in {cars, i}
       /\ cars' >= cars]_vars

====
